---- MODULE Spec2Model ----
(***************************************************************************)
(* Model of the docx paragraph tools: extractParagraphsFromHtml            *)
(* (processOl / walk), checkNumbering, renumberHierarchical and            *)
(* compareParagraphSets.  A string is a sequence of one-character strings. *)
(***************************************************************************)
EXTENDS Integers, Sequences, FiniteSets, TLC

VARIABLES pc, paragraphs, i, out, current, expected, issues,
          reference, target, compareResult, tree, paras, numberings,
          primaryParagraphs, normalized, itemNumber, findResult

vars == <<pc, paragraphs, i, out, current, expected, issues,
          reference, target, compareResult, tree, paras, numberings,
          primaryParagraphs, normalized, itemNumber, findResult>>

\* ---------------------------------------------------------------- bounds
\* longest paragraph sequence handed to renumberHierarchical / checkNumbering
MaxParas == 3

\* longest reference and target sequences handed to compareParagraphSets
MaxReference == 2

MaxTarget == 3

\* most list items of the outermost ordered list of a markup tree
MaxItems == 2

\* most paragraphs of a document uploaded to the workbench
MaxDoc == 2

\* ------------------------------------------------------------ characters
DigitChars == <<"0", "1", "2", "3", "4", "5", "6", "7", "8", "9">>

IsDigit(c) == \E d \in 1..10 : DigitChars[d] = c

DigitVal(c) == (CHOOSE d \in 1..10 : DigitChars[d] = c) - 1

\* the regular expression class \s, as far as the inputs use it
IsSpace(c) == c \in {" ", "\t", "\n"}

\* a character "." of a regular expression does not match a line terminator
IsLineTerminator(c) == c = "\n"

Drop(s, n) == SubSeq(s, n + 1, Len(s))

Take(s, n) == SubSeq(s, 1, n)

RECURSIVE LeadingSpaces(_)
LeadingSpaces(s) ==
  IF s # <<>> /\ IsSpace(Head(s)) THEN 1 + LeadingSpaces(Tail(s)) ELSE 0

RECURSIVE LeadingDigits(_)
LeadingDigits(s) ==
  IF s # <<>> /\ IsDigit(Head(s)) THEN 1 + LeadingDigits(Tail(s)) ELSE 0

RECURSIVE TrailingSpaces(_)
TrailingSpaces(s) ==
  IF s # <<>> /\ IsSpace(s[Len(s)])
  THEN 1 + TrailingSpaces(Take(s, Len(s) - 1)) ELSE 0

\* String.prototype.trim
Trim(s) ==
  LET t == Drop(s, LeadingSpaces(s)) IN Take(t, Len(t) - TrailingSpaces(t))

\* s.replace(/\s+/g, " ")
RECURSIVE CollapseSpaces(_)
CollapseSpaces(s) ==
  IF s = <<>> THEN <<>>
  ELSE IF IsSpace(Head(s))
       THEN <<" ">> \o CollapseSpaces(Drop(s, LeadingSpaces(s)))
       ELSE <<Head(s)>> \o CollapseSpaces(Tail(s))

\* s.replace(/\s+/g, " ").trim()
norm(s) == Trim(CollapseSpaces(s))

\* parseInt(n, 10) of a string of decimal digits
RECURSIVE ParseDigits(_)
ParseDigits(s) ==
  IF s = <<>> THEN 0
  ELSE 10 * ParseDigits(Take(s, Len(s) - 1)) + DigitVal(s[Len(s)])

\* Number.prototype.toString of a non-negative integer
RECURSIVE NatToStr(_)
NatToStr(n) ==
  IF n < 10 THEN <<DigitChars[n + 1]>>
  ELSE NatToStr(n \div 10) \o <<DigitChars[(n % 10) + 1]>>

\* numbers.join(".") of non-negative integers
RECURSIVE JoinDots(_)
JoinDots(path) ==
  IF path = <<>> THEN <<>>
  ELSE IF Len(path) = 1 THEN NatToStr(path[1])
  ELSE NatToStr(path[1]) \o <<".">> \o JoinDots(Tail(path))

\* numberingStr.split(".").map((n) => parseInt(n, 10)), numberingStr being
\* digit groups joined by "."
RECURSIVE SplitDots(_)
SplitDots(s) ==
  LET d == LeadingDigits(s) IN
  IF d = Len(s) THEN <<ParseDigits(s)>>
  ELSE <<ParseDigits(Take(s, d))>> \o SplitDots(Drop(s, d + 1))

\* ------------------------------------------------- renumberHierarchical
\* length of the longest prefix of s matched by \d+(?:\.\d+)* (0: none)
RECURSIVE DottedLen(_)
DottedLen(s) ==
  LET d == LeadingDigits(s) IN
  IF d = 0 THEN 0
  ELSE IF Len(s) >= d + 2 /\ s[d + 1] = "." /\ IsDigit(s[d + 2])
       THEN d + 1 + DottedLen(Drop(s, d + 1))
       ELSE d

NoMatch == [ok |-> FALSE, numberingStr |-> <<>>, delim |-> <<>>, restRaw |-> <<>>]

\* original.match(/^\s*(\d+(?:\.\d+)*)([.)])?\s+(.*)$/)
ReMatch(original) ==
  LET s1 == Drop(original, LeadingSpaces(original))
      n  == DottedLen(s1)
      s2 == Drop(s1, n)
      hasDelim == s2 # <<>> /\ Head(s2) \in {".", ")"}
      s3 == IF hasDelim THEN Tail(s2) ELSE s2
      w  == LeadingSpaces(s3)
      restRaw == Drop(s3, w)
  IN IF n = 0 \/ w = 0 \/ (\E k \in 1..Len(restRaw) : IsLineTerminator(restRaw[k]))
     THEN NoMatch
     ELSE [ok |-> TRUE, numberingStr |-> Take(s1, n),
           delim |-> IF hasDelim THEN <<Head(s2)>> ELSE <<>>,
           restRaw |-> restRaw]

\* ExpectedPath with the shallower-level branch truncating without incrementing
ExpectedPathNoIncrement(cur, found) ==
  LET dFound == Len(found)
      dCurr  == Len(cur)
  IN IF dCurr = 0 THEN found
     ELSE IF dFound = dCurr
          THEN Take(cur, dCurr - 1) \o <<cur[dCurr] + 1>>
     ELSE IF dFound = dCurr + 1
          THEN cur \o <<1>>
     ELSE IF dFound < dCurr
          THEN Take(cur, dFound)
     ELSE cur \o [k \in 1..(dFound - dCurr) |-> 1]

\* ExpectedPath with a deeper jump filled by a single level only
ExpectedPathOneLevel(cur, found) ==
  LET dFound == Len(found)
      dCurr  == Len(cur)
  IN IF dCurr = 0 THEN found
     ELSE IF dFound = dCurr
          THEN Take(cur, dCurr - 1) \o <<cur[dCurr] + 1>>
     ELSE IF dFound < dCurr
          THEN Take(cur, dFound - 1) \o <<cur[dFound] + 1>>
     ELSE cur \o <<1>>

\* ExpectedPath with the first numbered paragraph forced to start at 1
ExpectedPathFromOne(cur, found) ==
  LET dFound == Len(found)
      dCurr  == Len(cur)
  IN IF dCurr = 0 THEN [k \in 1..dFound |-> 1]
     ELSE IF dFound = dCurr
          THEN Take(cur, dCurr - 1) \o <<cur[dCurr] + 1>>
     ELSE IF dFound = dCurr + 1
          THEN cur \o <<1>>
     ELSE IF dFound < dCurr
          THEN Take(cur, dFound - 1) \o <<cur[dFound] + 1>>
     ELSE cur \o [k \in 1..(dFound - dCurr) |-> 1]

\* ExpectedPath with a sibling numbered after the number found, not the carried one
ExpectedPathFromFound(cur, found) ==
  LET dFound == Len(found)
      dCurr  == Len(cur)
  IN IF dCurr = 0 THEN found
     ELSE IF dFound = dCurr
          THEN Take(cur, dCurr - 1) \o <<found[dFound] + 1>>
     ELSE IF dFound = dCurr + 1
          THEN cur \o <<1>>
     ELSE IF dFound < dCurr
          THEN Take(cur, dFound - 1) \o <<cur[dFound] + 1>>
     ELSE cur \o [k \in 1..(dFound - dCurr) |-> 1]

\* the path the loop body computes from the carried path and the found one
ExpectedPath(cur, found) ==
  LET dFound == Len(found)
      dCurr  == Len(cur)
  IN IF dCurr = 0 THEN found
     ELSE IF dFound = dCurr
          THEN Take(cur, dCurr - 1) \o <<cur[dCurr] + 1>>
     ELSE IF dFound = dCurr + 1
          THEN cur \o <<1>>
     ELSE IF dFound < dCurr
          THEN Take(cur, dFound - 1) \o <<cur[dFound] + 1>>
     ELSE cur \o [k \in 1..(dFound - dCurr) |-> 1]

\* RenumberIter with the carried path reset by a paragraph without a prefix
RenumberIterReset(original, cur) ==
  LET m == ReMatch(original) IN
  IF ~m.ok THEN [out |-> original, current |-> <<>>]
  ELSE LET rest == norm(m.restRaw)
           found == SplitDots(m.numberingStr)
           exp == ExpectedPath(cur, found)
       IN [out |-> JoinDots(exp) \o m.delim \o <<" ">> \o rest,
           current |-> exp]

\* one iteration of the loop: the paragraph pushed and the path carried on
RenumberIter(original, cur) ==
  LET m == ReMatch(original) IN
  IF ~m.ok THEN [out |-> original, current |-> cur]
  ELSE LET rest == norm(m.restRaw)
           found == SplitDots(m.numberingStr)
           exp == ExpectedPath(cur, found)
       IN [out |-> JoinDots(exp) \o m.delim \o <<" ">> \o rest,
           current |-> exp]

\* ------------------------------------------------------------------ inputs
RenumberPool ==
  { <<"6", " ", "a">>,
    <<"6", ".", "1", " ", "a">>,
    <<"6", ".", "5", " ", "b">>,
    <<"6", ".", "3", ".", "5", " ", "b">>,
    <<"6", ".", "1", ".", "2", ")", " ", "c">>,
    <<"0", "7", ".", " ", " ", "a", "\t", " ", "b">>,
    <<" ", "9", " ", "x">>,
    <<"0", ".", "0", " ", "z">>,
    <<"a">>,
    <<"6", ".", "1", "a">>,
    <<"6", " ", "a", "\n", "b">>,
    <<>> }

RECURSIVE SeqsUpTo(_, _)
SeqsUpTo(S, n) ==
  IF n = 0 THEN {<<>>}
  ELSE LET shorter == SeqsUpTo(S, n - 1)
       IN shorter \cup {Append(q, x) : q \in {r \in shorter : Len(r) = n - 1}, x \in S}

InitRenumber ==
  /\ pc = "renumberHierarchical"
  /\ paragraphs \in SeqsUpTo(RenumberPool, MaxParas)
  /\ i = 0 /\ out = <<>> /\ current = <<>>
  /\ expected = 1 /\ issues = <<>>
  /\ reference = <<>> /\ target = <<>>
  /\ compareResult = [missingInTarget |-> <<>>, extraInTarget |-> <<>>]
  /\ tree = <<>> /\ paras = <<>> /\ numberings = <<>>
  /\ primaryParagraphs = <<>> /\ normalized = <<>>
  /\ itemNumber = <<>> /\ findResult = [index |-> -1, paragraph |-> <<>>]

\* one iteration of the for loop of renumberHierarchical
RenumberStep ==
  /\ pc = "renumberHierarchical"
  /\ i < Len(paragraphs)
  /\ LET r == RenumberIter(paragraphs[i + 1], current)
     IN /\ out' = Append(out, r.out)
        /\ current' = r.current
  /\ i' = i + 1
  /\ UNCHANGED <<pc, paragraphs, expected, issues, reference, target,
                 compareResult, tree, paras, numberings,
                 primaryParagraphs, normalized, itemNumber, findResult>>

\* return out
RenumberReturn ==
  /\ pc = "renumberHierarchical"
  /\ i = Len(paragraphs)
  /\ pc' = "renumberHierarchical:done"
  /\ UNCHANGED <<paragraphs, i, out, current, expected, issues, reference,
                 target, compareResult, tree, paras, numberings,
                 primaryParagraphs, normalized, itemNumber, findResult>>

NextRenumber == RenumberStep \/ RenumberReturn

SpecRenumber == InitRenumber /\ [][NextRenumber]_vars

\* ------------------------------------------------------- checkNumbering
\* p.match(/^\s*(\d+)[\.)]\s+/)
CheckMatch(p) ==
  LET s1 == Drop(p, LeadingSpaces(p))
      d  == LeadingDigits(s1)
      s2 == Drop(s1, d)
  IN IF d > 0 /\ Len(s2) >= 2 /\ s2[1] \in {".", ")"} /\ IsSpace(s2[2])
     THEN [ok |-> TRUE, digits |-> Take(s1, d)]
     ELSE [ok |-> FALSE, digits |-> <<>>]

\* CheckIter without the resynchronisation after a reported issue
CheckIterNoResync(p, idx, exp, iss) ==
  LET m == CheckMatch(p) IN
  IF ~m.ok THEN [issues |-> iss, expected |-> exp]
  ELSE LET found == ParseDigits(m.digits) IN
       IF found # exp
       THEN [issues |-> Append(iss, [index |-> idx, found |-> found,
                                     expected |-> exp, text |-> p]),
             expected |-> exp + 1]
       ELSE [issues |-> iss, expected |-> exp + 1]

\* one iteration of the loop of checkNumbering on paragraph p at index idx
CheckIter(p, idx, exp, iss) ==
  LET m == CheckMatch(p) IN
  IF ~m.ok THEN [issues |-> iss, expected |-> exp]
  ELSE LET found == ParseDigits(m.digits) IN
       IF found # exp
       THEN [issues |-> Append(iss, [index |-> idx, found |-> found,
                                     expected |-> exp, text |-> p]),
             expected |-> found + 1]
       ELSE [issues |-> iss, expected |-> exp + 1]

CheckPool ==
  { <<"1", ".", " ", "a">>,
    <<"2", ".", " ", "b">>,
    <<"3", ".", " ", "b">>,
    <<"4", ")", " ", "c">>,
    <<" ", "0", "2", ")", "\t", "x">>,
    <<"1", "0", ".", " ">>,
    <<"a">>,
    <<"1", ".", "5", " ", "a">>,
    <<"2", ".", "a">>,
    <<"3", " ", "c">> }

InitCheck ==
  /\ pc = "checkNumbering"
  /\ paragraphs \in SeqsUpTo(CheckPool, MaxParas)
  /\ i = 0 /\ out = <<>> /\ current = <<>>
  /\ expected = 1 /\ issues = <<>>
  /\ reference = <<>> /\ target = <<>>
  /\ compareResult = [missingInTarget |-> <<>>, extraInTarget |-> <<>>]
  /\ tree = <<>> /\ paras = <<>> /\ numberings = <<>>
  /\ primaryParagraphs = <<>> /\ normalized = <<>>
  /\ itemNumber = <<>> /\ findResult = [index |-> -1, paragraph |-> <<>>]

\* one iteration of the for loop of checkNumbering
CheckStep ==
  /\ pc = "checkNumbering"
  /\ i < Len(paragraphs)
  /\ LET r == CheckIter(paragraphs[i + 1], i, expected, issues)
     IN /\ issues' = r.issues
        /\ expected' = r.expected
  /\ i' = i + 1
  /\ UNCHANGED <<pc, paragraphs, out, current, reference, target,
                 compareResult, tree, paras, numberings,
                 primaryParagraphs, normalized, itemNumber, findResult>>

\* return issues
CheckReturn ==
  /\ pc = "checkNumbering"
  /\ i = Len(paragraphs)
  /\ pc' = "checkNumbering:done"
  /\ UNCHANGED <<paragraphs, i, out, current, expected, issues, reference,
                 target, compareResult, tree, paras, numberings,
                 primaryParagraphs, normalized, itemNumber, findResult>>

NextCheck == CheckStep \/ CheckReturn

SpecCheck == InitCheck /\ [][NextCheck]_vars

\* ------------------------------------------------- compareParagraphSets
UpperChars == <<"A", "B", "F">>

LowerChars == <<"a", "b", "f">>

\* String.prototype.toLowerCase, character by character
LowerChar(c) ==
  IF \E k \in 1..Len(UpperChars) : UpperChars[k] = c
  THEN LowerChars[CHOOSE k \in 1..Len(UpperChars) : UpperChars[k] = c]
  ELSE c

ToLowerCase(s) == [k \in 1..Len(s) |-> LowerChar(s[k])]

\* norm of compareParagraphSets, on one paragraph, without the case folding
CompareNormKeepCase(p) == Trim(CollapseSpaces(p))

\* norm of compareParagraphSets, on one paragraph
CompareNorm(p) == ToLowerCase(Trim(CollapseSpaces(p)))

\* the elements arr[idx] whose key keys[idx] is not in the set
RECURSIVE PushAbsent(_, _, _)
PushAbsent(arr, keys, set) ==
  IF arr = <<>> THEN <<>>
  ELSE (IF Head(keys) \notin set THEN <<Head(arr)>> ELSE <<>>)
         \o PushAbsent(Tail(arr), Tail(keys), set)

\* CompareParagraphSets with extraInTarget pushing the normalized text
CompareParagraphSetsPushNorm(ref, tgt) ==
  LET a == [k \in 1..Len(ref) |-> CompareNorm(ref[k])]
      b == [k \in 1..Len(tgt) |-> CompareNorm(tgt[k])]
      setB == {b[k] : k \in 1..Len(b)}
      setA == {a[k] : k \in 1..Len(a)}
  IN [missingInTarget |-> PushAbsent(ref, a, setB),
      extraInTarget |-> PushAbsent(b, b, setA)]

CompareParagraphSets(ref, tgt) ==
  LET a == [k \in 1..Len(ref) |-> CompareNorm(ref[k])]
      b == [k \in 1..Len(tgt) |-> CompareNorm(tgt[k])]
      setB == {b[k] : k \in 1..Len(b)}
      setA == {a[k] : k \in 1..Len(a)}
  IN [missingInTarget |-> PushAbsent(ref, a, setB),
      extraInTarget |-> PushAbsent(tgt, b, setA)]

ComparePool ==
  { <<"F", " ", " ", "b">>,
    <<"f", " ", "b">>,
    <<"a">>,
    <<"\t", "B", "\n">> }

InitCompare ==
  /\ pc = "compareParagraphSets"
  /\ reference \in SeqsUpTo(ComparePool, MaxReference)
  /\ target \in SeqsUpTo(ComparePool, MaxTarget)
  /\ compareResult = [missingInTarget |-> <<>>, extraInTarget |-> <<>>]
  /\ paragraphs = <<>> /\ i = 0 /\ out = <<>> /\ current = <<>>
  /\ expected = 1 /\ issues = <<>>
  /\ tree = <<>> /\ paras = <<>> /\ numberings = <<>>
  /\ primaryParagraphs = <<>> /\ normalized = <<>>
  /\ itemNumber = <<>> /\ findResult = [index |-> -1, paragraph |-> <<>>]

\* the call compareParagraphSets(reference, target)
Compare ==
  /\ pc = "compareParagraphSets"
  /\ compareResult' = CompareParagraphSets(reference, target)
  /\ pc' = "compareParagraphSets:done"
  /\ UNCHANGED <<paragraphs, i, out, current, expected, issues, reference,
                 target, tree, paras, numberings,
                 primaryParagraphs, normalized, itemNumber, findResult>>

NextCompare == Compare

SpecCompare == InitCompare /\ [][NextCompare]_vars

\* --------------------------------------------- extractParagraphsFromHtml
\* an attribute of an element: getAttribute gives null when has is FALSE
NoAttr == [has |-> FALSE, v |-> <<>>]

Attr(v) == [has |-> TRUE, v |-> v]

\* a text node and an element of the markup tree; attr is "start" of an ol
\* and "value" of an li
TextNode(t) == [tag |-> "#text", attr |-> NoAttr, text |-> t, kids |-> <<>>]

Element(tag, attr, kids) == [tag |-> tag, attr |-> attr, text |-> <<>>, kids |-> kids]

\* a JavaScript number: an integer or NaN
Num(v) == [nan |-> FALSE, v |-> v]

NaN == [nan |-> TRUE, v |-> 0]

\* x + k for a JavaScript number x and an integer k
NumPlus(x, k) == IF x.nan THEN NaN ELSE Num(x.v + k)

\* parseInt(s, 10): leading whitespace, an optional sign, the leading digits
ParseInt(s) ==
  LET s1 == Drop(s, LeadingSpaces(s))
      signed == s1 # <<>> /\ Head(s1) \in {"-", "+"}
      s2 == IF signed THEN Tail(s1) ELSE s1
      d == LeadingDigits(s2)
  IN IF d = 0 THEN NaN
     ELSE IF signed /\ Head(s1) = "-" THEN Num(0 - ParseDigits(Take(s2, d)))
     ELSE Num(ParseDigits(Take(s2, d)))

\* String(x) of a JavaScript number, as join applies it
NumToStr(x) ==
  IF x.nan THEN <<"N", "a", "N">>
  ELSE IF x.v < 0 THEN <<"-">> \o NatToStr(0 - x.v)
  ELSE NatToStr(x.v)

\* [...stack, current].join(".")
RECURSIVE JoinNums(_)
JoinNums(path) ==
  IF path = <<>> THEN <<>>
  ELSE IF Len(path) = 1 THEN NumToStr(path[1])
  ELSE NumToStr(path[1]) \o <<".">> \o JoinNums(Tail(path))

\* node.textContent
RECURSIVE TextContent(_)
RECURSIVE TextContentOf(_)
TextContentOf(kids) ==
  IF kids = <<>> THEN <<>>
  ELSE TextContent(Head(kids)) \o TextContentOf(Tail(kids))

TextContent(node) ==
  IF node.tag = "#text" THEN node.text ELSE TextContentOf(node.kids)

\* textContent of a clone with every ol and ul descendant removed
RECURSIVE TextWithoutLists(_)
TextWithoutLists(kids) ==
  IF kids = <<>> THEN <<>>
  ELSE LET n == Head(kids) IN
       (IF n.tag = "#text" THEN n.text
        ELSE IF n.tag \in {"ol", "ul"} THEN <<>>
        ELSE TextWithoutLists(n.kids)) \o TextWithoutLists(Tail(kids))

liMainText(li) == norm(TextWithoutLists(li.kids))

\* el.querySelectorAll(":scope > tag"): the direct children with that tag
ChildrenTagged(el, tag) == SelectSeq(el.kids, LAMBDA n : n.tag = tag)

\* StartCounter with an empty start attribute parsed like any other
StartCounterParseEmpty(ol) ==
  LET start == IF ol.attr.has THEN ParseInt(ol.attr.v) ELSE Num(1)
  IN NumPlus(start, -1)

\* counter before the first item: start - 1, start from the start attribute
StartCounter(ol) ==
  LET start == IF ol.attr.has /\ ol.attr.v # <<>> THEN ParseInt(ol.attr.v) ELSE Num(1)
  IN NumPlus(start, -1)

\* ItemNumber without the value attribute
ItemNumberNoValue(li, counter) == NumPlus(counter, 1)

\* current: the value attribute of the item, else counter + 1
ItemNumber(li, counter) ==
  IF li.attr.has /\ li.attr.v # <<>> THEN ParseInt(li.attr.v) ELSE NumPlus(counter, 1)

\* the paragraphs pushed for the unordered sublists of an item: subLis are the
\* elements of li.querySelectorAll(":scope > ul > li")
RECURSIVE SubListItems(_)
SubListItems(uls) ==
  IF uls = <<>> THEN <<>>
  ELSE ChildrenTagged(Head(uls), "li") \o SubListItems(Tail(uls))

RECURSIVE BulletEntries(_)
BulletEntries(subLis) ==
  IF subLis = <<>> THEN <<>>
  ELSE LET bulletText == norm(TextContent(Head(subLis))) IN
       (IF bulletText # <<>> THEN <<[numbering |-> <<>>, text |-> bulletText]>>
        ELSE <<>>) \o BulletEntries(Tail(subLis))

\* processOl(ol, stack): the entries pushed to paras, in order; an entry of an
\* ordered item carries its numbering [...stack, current]
RECURSIVE processOl(_, _)
RECURSIVE ProcessOlItems(_, _, _)
RECURSIVE ProcessChildOls(_, _)
ProcessChildOls(ols, stack) ==
  IF ols = <<>> THEN <<>>
  ELSE processOl(Head(ols), stack) \o ProcessChildOls(Tail(ols), stack)

\* the forEach over ol.children from the given child on, counter carried
ProcessOlItems(children, stack, counter) ==
  IF children = <<>> THEN <<>>
  ELSE LET li == Head(children) IN
       IF li.tag # "li" THEN ProcessOlItems(Tail(children), stack, counter)
       ELSE LET cur == ItemNumber(li, counter)
                text == liMainText(li)
            IN (IF text # <<>>
                THEN <<[numbering |-> stack \o <<cur>>, text |-> text]>>
                ELSE <<>>)
               \o ProcessChildOls(ChildrenTagged(li, "ol"), stack \o <<cur>>)
               \o BulletEntries(SubListItems(ChildrenTagged(li, "ul")))
               \o ProcessOlItems(Tail(children), stack, cur)

processOl(ol, stack) ==
  ProcessOlItems(SelectSeq(ol.kids, LAMBDA n : n.tag # "#text"), stack,
                 StartCounter(ol))

\* walk(root): the entries pushed to paras, in order
RECURSIVE walk(_)
RECURSIVE WalkChildren(_)
RECURSIVE WalkUlItems(_)
RECURSIVE WalkEach(_)
WalkEach(roots) ==
  IF roots = <<>> THEN <<>> ELSE walk(Head(roots)) \o WalkEach(Tail(roots))

\* the forEach over el.querySelectorAll(":scope > li") of an unordered list
WalkUlItems(lis) ==
  IF lis = <<>> THEN <<>>
  ELSE LET li == Head(lis)
           text == liMainText(li)
       IN (IF text # <<>> THEN <<[numbering |-> <<>>, text |-> text]>> ELSE <<>>)
          \o ProcessChildOls(ChildrenTagged(li, "ol"), <<>>)
          \o WalkEach(ChildrenTagged(li, "ul"))
          \o WalkUlItems(Tail(lis))

WalkChildren(children) ==
  IF children = <<>> THEN <<>>
  ELSE LET el == Head(children) IN
       (IF el.tag = "p"
        THEN LET text == norm(TextContent(el)) IN
             IF text # <<>> THEN <<[numbering |-> <<>>, text |-> text]>> ELSE <<>>
        ELSE IF el.tag = "ol" THEN processOl(el, <<>>)
        ELSE IF el.tag = "ul" THEN WalkUlItems(ChildrenTagged(el, "li"))
        ELSE walk(el)) \o WalkChildren(Tail(children))

walk(root) == WalkChildren(SelectSeq(root.kids, LAMBDA n : n.tag # "#text"))

\* `${numbering} ${text}` for an ordered item, the text alone otherwise
RenderEntry(e) ==
  IF e.numbering = <<>> THEN e.text ELSE JoinNums(e.numbering) \o <<" ">> \o e.text

\* ---- markup trees
StartAttrs ==
  { NoAttr, Attr(<<"3">>), Attr(<<"0">>), Attr(<<"-", "2">>), Attr(<<"x">>),
    Attr(<<>>) }

ValueAttrs == { NoAttr, Attr(<<"5">>), Attr(<<"x">>) }

PlainItem(t) == Element("li", NoAttr, <<TextNode(t)>>)

\* what a list item of the outermost list holds
ItemBodies ==
  { <<TextNode(<<"a">>)>>,
    <<TextNode(<<" ", "\n">>)>>,
    <<TextNode(<<"a", " ", " ", "c">>),
      Element("ol", NoAttr, <<PlainItem(<<"b">>)>>)>>,
    <<Element("ol", NoAttr, <<PlainItem(<<"b">>), PlainItem(<<"c">>)>>)>>,
    <<TextNode(<<"a">>),
      Element("ul", NoAttr, <<PlainItem(<<"u">>)>>),
      Element("ol", Attr(<<"4">>),
              <<Element("li", NoAttr,
                        <<TextNode(<<"b">>),
                          Element("ol", NoAttr, <<PlainItem(<<"c">>)>>)>>),
                Element("li", Attr(<<"0">>), <<TextNode(<<"d">>)>>)>>)>> }

Items == { Element("li", v, body) : v \in ValueAttrs, body \in ItemBodies }

OrderedLists ==
  { Element("ol", st, items) : st \in StartAttrs, items \in SeqsUpTo(Items, MaxItems) }

\* the div of extractParagraphsFromHtml with the parsed markup as children
Containers == { Element("div", NoAttr, <<ol>>) : ol \in OrderedLists }

InitExtract ==
  /\ pc = "extractParagraphsFromHtml"
  /\ tree \in Containers
  /\ paras = <<>> /\ numberings = <<>>
  /\ primaryParagraphs = <<>> /\ normalized = <<>>
  /\ itemNumber = <<>> /\ findResult = [index |-> -1, paragraph |-> <<>>]
  /\ paragraphs = <<>> /\ i = 0 /\ out = <<>> /\ current = <<>>
  /\ expected = 1 /\ issues = <<>>
  /\ reference = <<>> /\ target = <<>>
  /\ compareResult = [missingInTarget |-> <<>>, extraInTarget |-> <<>>]

\* the call extractParagraphsFromHtml(html), container being the parsed html
Extract ==
  /\ pc = "extractParagraphsFromHtml"
  /\ LET entries == walk(tree)
         numbered == SelectSeq(entries, LAMBDA e : e.numbering # <<>>)
     IN /\ paras' = [k \in 1..Len(entries) |-> RenderEntry(entries[k])]
        /\ numberings' = [k \in 1..Len(numbered) |-> numbered[k].numbering]
  /\ pc' = "extractParagraphsFromHtml:done"
  /\ UNCHANGED <<paragraphs, i, out, current, expected, issues, reference,
                 target, compareResult, tree,
                 primaryParagraphs, normalized, itemNumber, findResult>>

NextExtract == Extract

SpecExtract == InitExtract /\ [][NextExtract]_vars

\* -------------------------------------------------- normalizeParagraphs
\* NormalizeParagraphs with the empty entries dropped before the mapping
NormalizeParagraphsFilterFirst(ps) ==
  LET kept == SelectSeq(ps, LAMBDA p : Len(p) > 0)
  IN [k \in 1..Len(kept) |-> norm(kept[k])]

\* paragraphs.map((p) => p.replace(/\s+/g, " ").trim()).filter((p) => p.length > 0)
NormalizeParagraphs(ps) ==
  LET mapped == [k \in 1..Len(ps) |-> norm(ps[k])]
  IN SelectSeq(mapped, LAMBDA p : Len(p) > 0)

NormalizePool ==
  { <<" ", "a", " ", "\t", "b", "\n">>,
    <<"a", " ", "b">>,
    <<"x", "\n", "y">>,
    <<"a">>,
    <<" ", "\t">>,
    <<>> }

InitNormalize ==
  /\ pc = "normalizeParagraphs"
  /\ paragraphs \in SeqsUpTo(NormalizePool, MaxParas)
  /\ i = 0 /\ out = <<>> /\ current = <<>>
  /\ expected = 1 /\ issues = <<>>
  /\ reference = <<>> /\ target = <<>>
  /\ compareResult = [missingInTarget |-> <<>>, extraInTarget |-> <<>>]
  /\ tree = <<>> /\ paras = <<>> /\ numberings = <<>>
  /\ primaryParagraphs = <<>> /\ normalized = <<>>
  /\ itemNumber = <<>> /\ findResult = [index |-> -1, paragraph |-> <<>>]

\* the call normalizeParagraphs(paragraphs)
Normalize ==
  /\ pc = "normalizeParagraphs"
  /\ out' = NormalizeParagraphs(paragraphs)
  /\ pc' = "normalizeParagraphs:once"
  /\ UNCHANGED <<paragraphs, i, current, expected, issues, reference, target,
                 compareResult, tree, paras, numberings,
                 primaryParagraphs, normalized, itemNumber, findResult>>

\* the call normalizeParagraphs(out) on the result of the first call
NormalizeAgain ==
  /\ pc = "normalizeParagraphs:once"
  /\ out' = NormalizeParagraphs(out)
  /\ pc' = "normalizeParagraphs:twice"
  /\ UNCHANGED <<paragraphs, i, current, expected, issues, reference, target,
                 compareResult, tree, paras, numberings,
                 primaryParagraphs, normalized, itemNumber, findResult>>

NextNormalize == Normalize \/ NormalizeAgain

SpecNormalize == InitNormalize /\ [][NextNormalize]_vars

\* --------------------------------------------- findParagraphByItemNumber
\* String.prototype.startsWith
StartsWith(s, prefix) == Len(s) >= Len(prefix) /\ Take(s, Len(prefix)) = prefix

\* FindTarget without the trim
FindTargetNoTrim(item) == item

\* const target = itemNumber.trim()
FindTarget(item) == Trim(item)

\* the condition of the if in the loop
FindMatches(paragraph, tgt) ==
  \/ StartsWith(paragraph, tgt \o <<" ">>)
  \/ StartsWith(paragraph, tgt \o <<".">>)
  \/ StartsWith(paragraph, tgt \o <<")">>)
  \/ paragraph = tgt

FindPool ==
  { <<"6", ".", "1", " ", "a">>,
    <<"6", ".", "1", ".", "2", " ", "b">>,
    <<"6", ".", "1", ")", " ", "c">>,
    <<"6", ".", "1">>,
    <<"6", ".", "1", "0", " ", "d">>,
    <<" ", "6", ".", "1", " ", "a">>,
    <<"7", "\t", "x">>,
    <<"a">> }

ItemNumbers ==
  { <<"6", ".", "1">>, <<" ", "6", ".", "1", "\t">>, <<"6">>, <<"7">>, <<>> }

InitFind ==
  /\ pc = "findParagraphByItemNumber"
  /\ paragraphs \in SeqsUpTo(FindPool, MaxParas)
  /\ itemNumber \in ItemNumbers
  /\ findResult = [index |-> -1, paragraph |-> <<>>]
  /\ i = 0 /\ out = <<>> /\ current = <<>>
  /\ expected = 1 /\ issues = <<>>
  /\ reference = <<>> /\ target = <<>>
  /\ compareResult = [missingInTarget |-> <<>>, extraInTarget |-> <<>>]
  /\ tree = <<>> /\ paras = <<>> /\ numberings = <<>>
  /\ primaryParagraphs = <<>> /\ normalized = <<>>

\* one iteration of the for loop, with its return on a match
FindStep ==
  /\ pc = "findParagraphByItemNumber"
  /\ i < Len(paragraphs)
  /\ LET paragraph == paragraphs[i + 1] IN
     IF FindMatches(paragraph, FindTarget(itemNumber))
     THEN /\ findResult' = [index |-> i, paragraph |-> paragraph]
          /\ pc' = "findParagraphByItemNumber:done"
          /\ i' = i
     ELSE /\ i' = i + 1
          /\ UNCHANGED <<pc, findResult>>
  /\ UNCHANGED <<paragraphs, out, current, expected, issues, reference, target,
                 compareResult, tree, paras, numberings,
                 primaryParagraphs, normalized, itemNumber>>

\* return { index: -1, paragraph: "" } after the loop
FindReturn ==
  /\ pc = "findParagraphByItemNumber"
  /\ i = Len(paragraphs)
  /\ findResult' = [index |-> -1, paragraph |-> <<>>]
  /\ pc' = "findParagraphByItemNumber:done"
  /\ UNCHANGED <<paragraphs, i, out, current, expected, issues, reference,
                 target, compareResult, tree, paras, numberings,
                 primaryParagraphs, normalized, itemNumber>>

NextFind == FindStep \/ FindReturn

SpecFind == InitFind /\ [][NextFind]_vars

\* ---------------------------------------------------------- DocxWorkbench
\* normalized.length ? normalized : primaryParagraphs
displayParagraphs == IF Len(normalized) # 0 THEN normalized ELSE primaryParagraphs

\* paragraphs extractParagraphsFromHtml gives for an uploaded file: non-empty,
\* whitespace-normalized strings
UploadPool ==
  { <<"a">>, <<"1", ".", " ", "b">>, <<"c", " ", "d">> }

\* what the user types into the new-text field
EditTexts == { <<"x">>, <<" ", "y", "\t">>, <<>>, <<" ">> }

InitWorkbench ==
  /\ pc = "DocxWorkbench"
  /\ primaryParagraphs = <<>> /\ normalized = <<>>
  /\ issues = <<>>
  /\ paragraphs = <<>> /\ i = 0 /\ out = <<>> /\ current = <<>>
  /\ expected = 1
  /\ reference = <<>> /\ target = <<>>
  /\ compareResult = [missingInTarget |-> <<>>, extraInTarget |-> <<>>]
  /\ tree = <<>> /\ paras = <<>> /\ numberings = <<>>
  /\ itemNumber = <<>> /\ findResult = [index |-> -1, paragraph |-> <<>>]

\* handlePrimaryUpload(file): parseDocxFile resolves with the paragraphs parsed,
\* or throws and the catch leaves the paragraphs as they are
handlePrimaryUpload ==
  /\ pc = "DocxWorkbench"
  /\ \E ok \in BOOLEAN, parsed \in SeqsUpTo(UploadPool, MaxDoc) :
       IF ok
       THEN /\ primaryParagraphs' = NormalizeParagraphs(parsed)
            /\ normalized' = <<>>
            /\ issues' = <<>>
       ELSE UNCHANGED <<primaryParagraphs, normalized, issues>>
  /\ UNCHANGED <<pc, paragraphs, i, out, current, expected, reference, target,
                 compareResult, tree, paras, numberings, itemNumber, findResult>>

\* runNormalization: the button Normalizar
runNormalization ==
  /\ pc = "DocxWorkbench"
  /\ IF Len(primaryParagraphs) = 0
     THEN UNCHANGED normalized
     ELSE normalized' = NormalizeParagraphs(primaryParagraphs)
  /\ UNCHANGED <<pc, paragraphs, i, out, current, expected, issues, reference,
                 target, compareResult, tree, paras, numberings,
                 primaryParagraphs, itemNumber, findResult>>

\* applyEdit: the button Aplicar alteracao, with the index and text typed
applyEdit ==
  /\ pc = "DocxWorkbench"
  /\ \E idx \in 0..(MaxDoc + 1), editText \in EditTexts :
       LET base == displayParagraphs IN
       IF idx < 1 \/ idx > Len(base)
       THEN UNCHANGED normalized
       ELSE normalized' = [base EXCEPT ![idx] = Trim(editText)]
  /\ UNCHANGED <<pc, paragraphs, i, out, current, expected, issues, reference,
                 target, compareResult, tree, paras, numberings,
                 primaryParagraphs, itemNumber, findResult>>

NextWorkbench == handlePrimaryUpload \/ runNormalization \/ applyEdit

SpecWorkbench == InitWorkbench /\ [][NextWorkbench]_vars

\* ------------------------------- renumberHierarchical, applied to its result
\* the loop of renumberHierarchical from the given paragraph on, cur carried
RECURSIVE RenumberFrom(_, _)
RenumberFrom(ps, cur) ==
  IF ps = <<>> THEN <<>>
  ELSE LET r == RenumberIter(Head(ps), cur)
       IN <<r.out>> \o RenumberFrom(Tail(ps), r.current)

\* renumberHierarchical(paragraphs)
renumberHierarchical(ps) == RenumberFrom(ps, <<>>)

InitRenumberTwice ==
  /\ pc = "renumberHierarchical:call"
  /\ paragraphs \in SeqsUpTo(RenumberPool, MaxParas)
  /\ i = 0 /\ out = <<>> /\ current = <<>>
  /\ expected = 1 /\ issues = <<>>
  /\ reference = <<>> /\ target = <<>>
  /\ compareResult = [missingInTarget |-> <<>>, extraInTarget |-> <<>>]
  /\ tree = <<>> /\ paras = <<>> /\ numberings = <<>>
  /\ primaryParagraphs = <<>> /\ normalized = <<>>
  /\ itemNumber = <<>> /\ findResult = [index |-> -1, paragraph |-> <<>>]

\* the call renumberHierarchical(paragraphs)
RenumberCall ==
  /\ pc = "renumberHierarchical:call"
  /\ out' = renumberHierarchical(paragraphs)
  /\ pc' = "renumberHierarchical:once"
  /\ UNCHANGED <<paragraphs, i, current, expected, issues, reference, target,
                 compareResult, tree, paras, numberings,
                 primaryParagraphs, normalized, itemNumber, findResult>>

\* the call renumberHierarchical(out) on the result of the first call
RenumberAgain ==
  /\ pc = "renumberHierarchical:once"
  /\ out' = renumberHierarchical(out)
  /\ pc' = "renumberHierarchical:twice"
  /\ UNCHANGED <<paragraphs, i, current, expected, issues, reference, target,
                 compareResult, tree, paras, numberings,
                 primaryParagraphs, normalized, itemNumber, findResult>>

NextRenumberTwice == RenumberCall \/ RenumberAgain

SpecRenumberTwice == InitRenumberTwice /\ [][NextRenumberTwice]_vars

\* ------------------------------------------------------- every operation
Init ==
  \/ InitRenumber \/ InitCheck \/ InitCompare \/ InitExtract
  \/ InitNormalize \/ InitFind \/ InitWorkbench \/ InitRenumberTwice

Next ==
  \/ RenumberStep \/ RenumberReturn
  \/ CheckStep \/ CheckReturn
  \/ Compare
  \/ Extract
  \/ Normalize \/ NormalizeAgain
  \/ FindStep \/ FindReturn
  \/ handlePrimaryUpload \/ runNormalization \/ applyEdit
  \/ RenumberCall \/ RenumberAgain

Spec == Init /\ [][Next]_vars

\* ------------------------------------------------ renumberHierarchical claims
\* the step of the loop that handles paragraph i + 1
RenumberStepping == pc = "renumberHierarchical" /\ i' = i + 1

\* the number path printed in paragraph p (p matching the pattern)
PrintedPath(p) == SplitDots(ReMatch(p).numberingStr)

\* what the loop pushes for a matching paragraph given the path it emits
Rendered(p, path) ==
  JoinDots(path) \o ReMatch(p).delim \o <<" ">> \o norm(ReMatch(p).restRaw)

\* C1: on a numbered paragraph whose printed depth is at most the depth of the
\* carried current path, the emitted path is current truncated to the printed
\* depth with its last element incremented by 1, and it becomes the new current.
C1_ShallowerOrSibling ==
  [][ RenumberStepping =>
        LET p == paragraphs[i + 1]
            dFound == Len(PrintedPath(p))
            e == [k \in 1..dFound |->
                    IF k < dFound THEN current[k] ELSE current[k] + 1]
        IN (ReMatch(p).ok /\ current # <<>> /\ dFound <= Len(current))
             => /\ current' = e
                /\ out' = Append(out, Rendered(p, e)) ]_vars

\* [6,1,2] followed by a depth-1 prefix has given 7
C1_Witness ==
  /\ pc = "renumberHierarchical" /\ i = 2
  /\ ReMatch(paragraphs[1]).ok /\ PrintedPath(paragraphs[1]) = <<6, 1, 2>>
  /\ ReMatch(paragraphs[2]).ok /\ Len(PrintedPath(paragraphs[2])) = 1
  /\ current = <<7>>
  /\ out[2] = <<"7", " ", "a">>

\* C2: on a numbered paragraph whose printed depth dFound exceeds the depth dCurr
\* of the carried current path, the emitted path is current followed by exactly
\* dFound - dCurr ones, whatever numbers are printed.
C2_Deeper ==
  [][ RenumberStepping =>
        LET p == paragraphs[i + 1]
            dFound == Len(PrintedPath(p))
            dCurr == Len(current)
            e == [k \in 1..dFound |-> IF k <= dCurr THEN current[k] ELSE 1]
        IN (ReMatch(p).ok /\ current # <<>> /\ dFound > dCurr)
             => /\ current' = e
                /\ out' = Append(out, Rendered(p, e)) ]_vars

\* "6 a" followed by "6.3.5 b", a jump of two levels, has given 6.1.1
C2_Witness ==
  /\ pc = "renumberHierarchical" /\ i = 2
  /\ ReMatch(paragraphs[1]).ok /\ PrintedPath(paragraphs[1]) = <<6>>
  /\ ReMatch(paragraphs[2]).ok /\ PrintedPath(paragraphs[2]) = <<6, 3, 5>>
  /\ current = <<6, 1, 1>>
  /\ out[2] = <<"6", ".", "1", ".", "1", " ", "b">>

\* C3: the first paragraph that carries a numbering prefix keeps its number path
\* exactly as found, and that path becomes the current path.
C3_FirstKept ==
  [][ RenumberStepping =>
        LET p == paragraphs[i + 1]
        IN (ReMatch(p).ok /\ \A j \in 1..i : ~ReMatch(paragraphs[j]).ok)
             => /\ current' = PrintedPath(p)
                /\ out' = Append(out, Rendered(p, PrintedPath(p)))
                /\ ReMatch(out'[i + 1]).ok
                /\ PrintedPath(out'[i + 1]) = PrintedPath(p) ]_vars

\* a first numbered paragraph of depth 3, after an unnumbered one, was kept
C3_Witness ==
  /\ pc = "renumberHierarchical" /\ i = 2
  /\ ~ReMatch(paragraphs[1]).ok
  /\ ReMatch(paragraphs[2]).ok /\ PrintedPath(paragraphs[2]) = <<6, 3, 5>>
  /\ current = <<6, 3, 5>>

\* C4: the output has the length of the input, a paragraph without a numbering
\* prefix appears unchanged at the same index, and it leaves the carried current
\* path unchanged.
C4_Frame ==
  /\ [](pc \in {"renumberHierarchical", "renumberHierarchical:done"} =>
          /\ Len(out) = i
          /\ pc = "renumberHierarchical:done" => Len(out) = Len(paragraphs)
          /\ \A j \in 1..i : ~ReMatch(paragraphs[j]).ok => out[j] = paragraphs[j])
  /\ [][ (RenumberStepping /\ ~ReMatch(paragraphs[i + 1]).ok)
            => current' = current ]_vars

\* an unnumbered paragraph between two numbered ones: the second continues the first
C4_Witness ==
  /\ pc = "renumberHierarchical:done" /\ Len(paragraphs) = 3
  /\ ReMatch(paragraphs[1]).ok /\ ~ReMatch(paragraphs[2]).ok
  /\ ReMatch(paragraphs[3]).ok
  /\ out[2] = paragraphs[2]
  /\ current = <<6, 2>>

\* ------------------------------------------------------ checkNumbering claims
\* p has a flat numeric marker: optional leading whitespace, the digits
\* p[a+1..b], then "." or ")", then a whitespace character
HasMarkerAt(p, a, b) ==
  /\ a < b /\ b + 2 <= Len(p)
  /\ \A k \in 1..a : IsSpace(p[k])
  /\ \A k \in (a + 1)..b : IsDigit(p[k])
  /\ p[b + 1] \in {".", ")"}
  /\ IsSpace(p[b + 2])

Marked(p) == \E a \in 0..Len(p), b \in 0..Len(p) : HasMarkerAt(p, a, b)

MarkerNumber(p) ==
  LET ab == CHOOSE ab \in (0..Len(p)) \X (0..Len(p)) : HasMarkerAt(p, ab[1], ab[2])
  IN ParseDigits(SubSeq(p, ab[1] + 1, ab[2]))

\* the number of the nearest marked paragraph before position j, plus 1
\* (1 when there is none)
ExpectedAt(j) ==
  LET prev == {k \in 1..(j - 1) : Marked(paragraphs[k])}
  IN IF prev = {} THEN 1
     ELSE MarkerNumber(paragraphs[CHOOSE k \in prev : \A l \in prev : l <= k]) + 1

ReportedAt(j) == \E n \in 1..Len(issues) : issues[n].index = j - 1

\* C6: a paragraph with a flat numeric marker is reported iff its number differs
\* from the number of the nearest earlier marked paragraph plus 1 (from 1 for the
\* first); the issue records that value as expected, so found # expected; each
\* paragraph is reported at most once; unmarked paragraphs are never reported and
\* do not change the expected counter.
C6_CheckNumbering ==
  pc \in {"checkNumbering", "checkNumbering:done"} =>
    /\ \A j \in 1..i :
         ReportedAt(j) <=> ( /\ Marked(paragraphs[j])
                             /\ MarkerNumber(paragraphs[j]) # ExpectedAt(j) )
    /\ \A n \in 1..Len(issues) :
         LET j == issues[n].index + 1 IN
         /\ j \in 1..i
         /\ issues[n].found = MarkerNumber(paragraphs[j])
         /\ issues[n].expected = ExpectedAt(j)
         /\ issues[n].text = paragraphs[j]
         /\ issues[n].found # issues[n].expected
    /\ \A n \in 1..(Len(issues) - 1) : issues[n].index < issues[n + 1].index
    /\ expected = ExpectedAt(i + 1)

\* "1. a", "3. b", "4. c": one gap, exactly one issue, at index 1
C6_Witness ==
  /\ pc = "checkNumbering:done"
  /\ paragraphs = << <<"1", ".", " ", "a">>, <<"3", ".", " ", "b">>,
                     <<"4", ")", " ", "c">> >>
  /\ issues = << [index |-> 1, found |-> 3, expected |-> 2,
                  text |-> <<"3", ".", " ", "b">>] >>

\* ------------------------------------------------ compareParagraphSets claims
\* the words of a paragraph: its maximal runs of non-whitespace, lower-cased
RECURSIVE Words(_)
Words(p) ==
  LET q == Drop(p, LeadingSpaces(p))
      n == IF \E k \in 1..Len(q) : IsSpace(q[k])
           THEN (CHOOSE k \in 1..Len(q) :
                   IsSpace(q[k]) /\ \A l \in 1..(k - 1) : ~IsSpace(q[l])) - 1
           ELSE Len(q)
  IN IF q = <<>> THEN <<>>
     ELSE <<[k \in 1..n |-> LowerChar(q[k])]>> \o Words(Drop(q, n))

\* p has the normalized form of no paragraph of the sequence others
AbsentFrom(p, others) == \A k \in 1..Len(others) : Words(p) # Words(others[k])

\* C7: missingInTarget is the subsequence of reference, in order and with the
\* original text, of the paragraphs whose normalized form is that of no target
\* paragraph; extraInTarget is the same with the roles exchanged, so
\* missingInTarget of (A, B) equals extraInTarget of (B, A).
C7_SetDifference ==
  pc = "compareParagraphSets:done" =>
    /\ compareResult.missingInTarget
         = SelectSeq(reference, LAMBDA p : AbsentFrom(p, target))
    /\ compareResult.extraInTarget
         = SelectSeq(target, LAMBDA p : AbsentFrom(p, reference))
    /\ compareResult.missingInTarget
         = CompareParagraphSets(target, reference).extraInTarget
    /\ compareResult.extraInTarget
         = CompareParagraphSets(target, reference).missingInTarget

\* both lists non-empty, the originals (upper case, double space) kept
C7_Witness ==
  /\ pc = "compareParagraphSets:done"
  /\ reference = << <<"a">>, <<"F", " ", " ", "b">> >>
  /\ target = << <<"\t", "B", "\n">>, <<"a">>, <<"\t", "B", "\n">> >>
  /\ compareResult.missingInTarget = << <<"F", " ", " ", "b">> >>
  /\ compareResult.extraInTarget = << <<"\t", "B", "\n">>, <<"\t", "B", "\n">> >>

NormalForms(ps) == {Words(ps[k]) : k \in 1..Len(ps)}

\* C8: both lists are empty whenever the two inputs have the same set of
\* normalized forms (A against A, a reordering, repeats, case or whitespace).
C8_SameFormsNoDifference ==
  (pc = "compareParagraphSets:done" /\ NormalForms(reference) = NormalForms(target))
    => /\ compareResult.missingInTarget = <<>>
       /\ compareResult.extraInTarget = <<>>

\* target reorders reference, repeats a paragraph and differs in case and spacing
C8_Witness ==
  /\ pc = "compareParagraphSets:done"
  /\ reference = << <<"F", " ", " ", "b">>, <<"a">> >>
  /\ target = << <<"a">>, <<"f", " ", "b">>, <<"a">> >>
  /\ compareResult.missingInTarget = <<>>
  /\ compareResult.extraInTarget = <<>>

\* -------------------------------------------------- number path claims
\* C5: every number path the program produces has only elements >= 1: each path
\* renumberHierarchical writes (the carried current path) and each numbering
\* processOl emits.
C5_PathElementsPositive ==
  /\ \A k \in 1..Len(current) : current[k] >= 1
  /\ \A n \in 1..Len(numberings) : \A k \in 1..Len(numberings[n]) :
       ~numberings[n][k].nan /\ numberings[n][k].v >= 1

\* ------------------------------------------------------- processOl claims
\* v is an integer literal: an optional minus sign, then digits only
IsIntegerLiteral(v) ==
  LET d == IF v # <<>> /\ Head(v) = "-" THEN Tail(v) ELSE v
  IN d # <<>> /\ \A k \in 1..Len(d) : IsDigit(d[k])

IntegerOf(v) ==
  IF Head(v) = "-" THEN 0 - ParseDigits(Tail(v)) ELSE ParseDigits(v)

\* every start and value attribute below the node is absent or an integer
RECURSIVE AttrsAreIntegers(_)
AttrsAreIntegers(node) ==
  /\ node.attr.has => IsIntegerLiteral(node.attr.v)
  /\ \A k \in 1..Len(node.kids) : AttrsAreIntegers(node.kids[k])

\* the integer of the k-th item of the list: its value override if present,
\* otherwise the previous item's integer plus 1 (the start override, else 1,
\* for the first item)
RECURSIVE ItemInteger(_, _, _)
ItemInteger(ol, items, k) ==
  IF items[k].attr.has THEN IntegerOf(items[k].attr.v)
  ELSE IF k = 1 THEN (IF ol.attr.has THEN IntegerOf(ol.attr.v) ELSE 1)
  ELSE ItemInteger(ol, items, k - 1) + 1

JoinIntegers(path) == JoinNums([k \in 1..Len(path) |-> Num(path[k])])

\* the paragraphs of an ordered list numbered with prefix P: per item, its own
\* paragraph when it has main text, then the ordered lists directly under it
\* with prefix P + [n], then the items of its unordered sublists
RECURSIVE NumberedList(_, _)
RECURSIVE NumberedItemsFrom(_, _, _, _)
RECURSIVE NumberedChildLists(_, _)
NumberedChildLists(ols, P) ==
  IF ols = <<>> THEN <<>>
  ELSE NumberedList(Head(ols), P) \o NumberedChildLists(Tail(ols), P)

NumberedItemsFrom(ol, items, k, P) ==
  IF k > Len(items) THEN <<>>
  ELSE LET n == ItemInteger(ol, items, k)
           text == liMainText(items[k])
           bullets == BulletEntries(SubListItems(ChildrenTagged(items[k], "ul")))
       IN (IF text # <<>>
           THEN <<JoinIntegers(P \o <<n>>) \o <<" ">> \o text>> ELSE <<>>)
          \o NumberedChildLists(ChildrenTagged(items[k], "ol"), P \o <<n>>)
          \o [b \in 1..Len(bullets) |-> bullets[b].text]
          \o NumberedItemsFrom(ol, items, k + 1, P)

NumberedList(ol, P) == NumberedItemsFrom(ol, ChildrenTagged(ol, "li"), 1, P)

\* C9: with integer attributes, each item of an ordered list gets its value
\* override if present, otherwise the previous item's integer plus 1 (the start
\* override, else 1, for the first); it consumes the integer with or without own
\* text; with main text it is emitted as join(P + [n], ".") + " " + text; and
\* the ordered lists directly under it are numbered with prefix P + [n].
C9_NumberingSynthesis ==
  (pc = "extractParagraphsFromHtml:done" /\ AttrsAreIntegers(tree))
    => paras = NumberedList(tree.kids[1], <<>>)

\* an un-attributed list nested two levels has given the prefixes 1, 1.1, 2
C9_Witness ==
  /\ pc = "extractParagraphsFromHtml:done"
  /\ tree.kids[1].attr = NoAttr
  /\ Len(tree.kids[1].kids) = 2
  /\ \A k \in 1..2 : tree.kids[1].kids[k].attr = NoAttr
  /\ paras = << <<"1", " ", "a", " ", "c">>, <<"1", ".", "1", " ", "b">>,
                <<"2", " ", "a">> >>

\* v is a valid positive integer: digits only, of value at least 1
IsPositiveInteger(v) ==
  /\ v # <<>> /\ \A k \in 1..Len(v) : IsDigit(v[k])
  /\ ParseDigits(v) >= 1

\* the tree with every attribute that is no valid positive integer removed
RECURSIVE WithoutInvalidAttrs(_)
WithoutInvalidAttrs(node) ==
  [node EXCEPT
     !.attr = IF node.attr.has /\ ~IsPositiveInteger(node.attr.v)
              THEN NoAttr ELSE node.attr,
     !.kids = [k \in 1..Len(node.kids) |-> WithoutInvalidAttrs(node.kids[k])]]

\* C10: a start or value attribute that is present but no valid positive integer
\* (non-numeric, zero, negative) leaves the numbering as if it were absent.
C10_InvalidAttrFallsBack ==
  pc = "extractParagraphsFromHtml:done" =>
    LET entries == walk(WithoutInvalidAttrs(tree))
    IN paras = [k \in 1..Len(entries) |-> RenderEntry(entries[k])]

\* ------------------------------------------------------ document order claim
\* the text of the tree in document order, whitespace left out
TreeLetters(node) == SelectSeq(TextContent(node), LAMBDA c : ~IsSpace(c))

\* no character of the tree's text occurs twice: a character names its place
DistinctLetters(node) ==
  LET t == TreeLetters(node)
  IN \A a \in 1..Len(t), b \in 1..Len(t) : t[a] = t[b] => a = b

\* the place in the tree of the text of the k-th emitted paragraph, taken at
\* the last character of the paragraph (the numbering, if any, is in front)
PlaceInTree(k) ==
  LET t == TreeLetters(tree)
  IN CHOOSE a \in 1..Len(t) : t[a] = paras[k][Len(paras[k])]

\* C11: paragraphs are emitted in document order: when the text of one emitted
\* paragraph comes before the text of another in the tree, it comes before it
\* in the output, also when an item holds ordered and unordered nested lists.
C11_DocumentOrder ==
  (pc = "extractParagraphsFromHtml:done" /\ DistinctLetters(tree))
    => \A m \in 1..Len(paras), n \in 1..Len(paras) :
         PlaceInTree(m) < PlaceInTree(n) => m < n

\* -------------------------------------------------- normalizeParagraphs claim
\* C12: normalizeParagraphs is idempotent: normalizing the normalized sequence
\* gives the normalized sequence.
C12_NormalizeIdempotent ==
  [][ (pc = "normalizeParagraphs:once" /\ pc' = "normalizeParagraphs:twice")
        => out' = out ]_vars

\* a sequence with whitespace runs and entries that become empty, normalized twice
C12_Witness ==
  /\ pc = "normalizeParagraphs:twice"
  /\ paragraphs = << <<" ", "\t">>, <<" ", "a", " ", "\t", "b", "\n">>,
                     <<"x", "\n", "y">> >>
  /\ out = << <<"a", " ", "b">>, <<"x", " ", "y">> >>

\* -------------------------------------------- findParagraphByItemNumber claim
\* p equals the item number t, or begins with it immediately followed by a
\* space, "." or ")"
HoldsItem(p, t) ==
  \/ p = t
  \/ /\ Len(p) > Len(t)
     /\ \A k \in 1..Len(t) : p[k] = t[k]
     /\ p[Len(t) + 1] \in {" ", ".", ")"}

\* C13: the result is the lowest index i, with paragraphs[i], such that
\* paragraphs[i] equals the trimmed item number or begins with it followed by a
\* space, "." or ")"; index -1 and the empty string when there is none.
C13_FindLowestMatch ==
  pc = "findParagraphByItemNumber:done" =>
    LET t == Trim(itemNumber)
        hits == {j \in 1..Len(paragraphs) : HoldsItem(paragraphs[j], t)}
    IN IF hits = {}
       THEN findResult = [index |-> -1, paragraph |-> <<>>]
       ELSE LET first == CHOOSE j \in hits : \A l \in hits : j <= l
            IN findResult = [index |-> first - 1, paragraph |-> paragraphs[first]]

\* an untrimmed item number found at the second of three paragraphs, the third
\* matching too
C13_Witness ==
  /\ pc = "findParagraphByItemNumber:done"
  /\ itemNumber = <<" ", "6", ".", "1", "\t">>
  /\ paragraphs = << <<"6", ".", "1", "0", " ", "d">>,
                     <<"6", ".", "1", ".", "2", " ", "b">>,
                     <<"6", ".", "1", " ", "a">> >>
  /\ findResult = [index |-> 1,
                   paragraph |-> <<"6", ".", "1", ".", "2", " ", "b">>]

\* ---------------------------------------------------------- workbench claim
\* C14: after any sequence of uploads, normalizations and edits the displayed
\* paragraph sequence contains no empty string.
C14_NoEmptyDisplayed ==
  pc = "DocxWorkbench" =>
    \A k \in 1..Len(displayParagraphs) : displayParagraphs[k] # <<>>

\* ------------------------------------------ renumberHierarchical idempotence
\* C15: renumberHierarchical is idempotent: renumbering the renumbered sequence
\* gives the renumbered sequence.
C15_RenumberIdempotent ==
  [][ (pc = "renumberHierarchical:once" /\ pc' = "renumberHierarchical:twice")
        => out' = out ]_vars

\* a sequence the first call rewrites (a sibling misnumbered, a jump of levels,
\* spacing), renumbered twice
C15_Witness ==
  /\ pc = "renumberHierarchical:twice"
  /\ paragraphs = << <<"6", ".", "1", " ", "a">>, <<"6", ".", "5", " ", "b">>,
                     <<"0", "7", ".", " ", " ", "a", "\t", " ", "b">> >>
  /\ out = << <<"6", ".", "1", " ", "a">>, <<"6", ".", "2", " ", "b">>,
              <<"7", ".", " ", "a", " ", "b">> >>

====
